---- MODULE Spec2Model ----
\* Model of the Sanskrit citation markup validator (src/validate.py).
\*
\* A file is represented by the list of its lines (content.split on newline,
\* never empty: the empty file is the one blank line).  A line is the text
\* that surrounds its tags and the tag-shaped substrings that re.findall
\* returns for it, in left-to-right order; a tag is the triple of the regex
\* groups (is_closing, tag_name, attributes_str).  An attribute string is the
\* list of its whitespace-separated items.
EXTENDS Integers, Sequences, FiniteSets, TLC

VARIABLES
    file,        \* the file on disk: [status, lines]
    pc,          \* position of validate_file
    content,     \* content.split('\n') once the file is read
    prompts,     \* result of _split_into_prompts
    prompt_idx,  \* enumerate index of the prompt being validated (0-based)
    used_ids,    \* used_ids of the running _validate_prompt
    tag_stack,   \* tag_stack of the running _validate_xml_structure
    pos,         \* index of the next tag occurrence of the running pass
    errors,      \* self.errors
    process,     \* the running interpreter: its number and the iteration
                 \* order of its sets, <<>> until a message joined from one
                 \* of them is read
    returned,    \* the results of the calls that have returned, as read by
                 \* their caller
    argv,        \* sys.argv of the validator command
    stdout,      \* the lines the command has printed
    exit_status  \* the exit status of the command, -1 while it has none

vars == <<file, pc, content, prompts, prompt_idx, used_ids, tag_stack, pos, errors,
         process, returned, argv, stdout, exit_status>>

(***************************************************************************)
(* Bounds of the inputs.                                                   *)
(***************************************************************************)
MaxLines == 3   \* lines of a file
MaxTags == 2    \* tags of a file (all lines together)
MaxAttrs == 2   \* attribute items of a file (all tags together)

(***************************************************************************)
(* SanskritValidator.__init__                                              *)
(***************************************************************************)
valid_tags == {"quote", "author", "title"}
valid_attributes == {"id", "authorid", "titleid", "type"}
valid_type_values == {"generic"}

\* validate_file is called from a program other than main of validate.py
NoCommand == argv = <<>> /\ stdout = <<>> /\ exit_status = -1

\* an interpreter process: the order in which it iterates self.valid_tags and
\* self.valid_attributes (that of the hashes of their strings, which are
\* salted anew for each process), <<>> while unobserved
Process(pid, tags_order, attributes_order) ==
    [pid |-> pid, valid_tags |-> tags_order, valid_attributes |-> attributes_order]

(***************************************************************************)
(* Lines, tags, attribute items.                                           *)
(***************************************************************************)
Line(text, tags) == [text |-> text, tags |-> tags]
Tag(closing, name, attrs) ==
    [is_closing |-> closing, tag_name |-> name, attributes_str |-> attrs]
\* form: "quoted" is name="value" or name='value'; "unquoted" is name=value;
\* "bare" is a word without '=' (the slash of <quote />).
Item(form, name, value) == [form |-> form, name |-> name, value |-> value]

\* line.strip() == '---' (a whitespace-only line is represented by the blank
\* line, which is what strip() makes of it)
IsSeparator(line) == line.tags = <<>> /\ line.text = "---"

\* line.strip() is non-empty
IsNonBlank(line) == line.tags # <<>> \/ line.text # ""

ValidationError(line_number, error_type, prompt_number, names, from_line) ==
    [line_number |-> line_number, error_type |-> error_type,
     message |-> [prompt_number |-> prompt_number, names |-> names,
                  from_line |-> from_line]]

(***************************************************************************)
(* The file on disk, written before validate_file reads it.  Two shapes of *)
(* file are written: up to MaxLines lines with up to MaxTags tags of       *)
(* StructTags; and one line of opening tags that carry up to MaxAttrs      *)
(* attribute items together.                                               *)
(***************************************************************************)
Texts == {"---", "", "x"}
Names == {"quote", "title", "foo"}

StructTags ==
    {Tag(c, n, <<>>) : c \in BOOLEAN, n \in Names}
        \cup {Tag(FALSE, "quote", <<Item("quoted", "id", "a")>>)}

AttrItems ==
    {Item("quoted", "id", "a"), Item("quoted", "id", "b"),
     Item("quoted", "authorid", "a"), Item("quoted", "titleid", "a"),
     Item("quoted", "type", "generic"), Item("quoted", "type", "a"),
     Item("quoted", "lang", "a"), Item("unquoted", "id", "a"),
     Item("bare", "/", "")}

RECURSIVE TagCount(_)
TagCount(lines) ==
    IF lines = <<>> THEN 0 ELSE Len(Head(lines).tags) + TagCount(Tail(lines))

RECURSIVE ItemCount(_)
ItemCount(tags) ==
    IF tags = <<>> THEN 0
    ELSE Len(Head(tags).attributes_str) + ItemCount(Tail(tags))

AllTags(lines, P(_)) ==
    \A i \in 1..Len(lines) : \A j \in 1..Len(lines[i].tags) : P(lines[i].tags[j])

IsStructFile(lines) ==
    /\ Len(lines) <= MaxLines
    /\ TagCount(lines) <= MaxTags
    /\ AllTags(lines, LAMBDA t : t \in StructTags)

IsAttrFile(lines) ==
    /\ Len(lines) = 1
    /\ ItemCount(lines[1].tags) <= MaxAttrs
    /\ AllTags(lines, LAMBDA t : ~t.is_closing /\ t.attributes_str # <<>>)

InShape(lines) == IsStructFile(lines) \/ IsAttrFile(lines)

\* the last line with tag t appended to it
WithTag(lines, t) ==
    [lines EXCEPT ![Len(lines)].tags = Append(@, t)]

\* the last tag of the last line with item it appended to its attributes
WithItem(lines, it) ==
    [lines EXCEPT ![Len(lines)].tags =
        [@ EXCEPT ![Len(@)].attributes_str = Append(@, it)]]

(***************************************************************************)
(* validate_file: open and read                                            *)
(***************************************************************************)
\* the exception open()/read() raises for a file, "none" when it is read
OpenRead(f) ==
    CASE f.status = "missing" -> "FileNotFoundError"
      [] f.status = "undecodable" -> "UnicodeDecodeError"
      [] OTHER -> "none"

\* ExceptClause with the "except UnicodeDecodeError" clause missing
ExceptClauseFileOnly(exc) ==
    CASE exc = "FileNotFoundError" -> "FILE_ERROR"
      [] OTHER -> "uncaught"

\* the except clauses of validate_file: the error type recorded for an
\* exception, "uncaught" when no clause handles it
ExceptClause(exc) ==
    CASE exc = "FileNotFoundError" -> "FILE_ERROR"
      [] exc = "UnicodeDecodeError" -> "ENCODING_ERROR"
      [] OTHER -> "uncaught"

ReadFile ==
    /\ pc = "start"
    /\ LET exc == OpenRead(file) IN
         IF exc = "none"
         THEN /\ content' = file.lines
              /\ errors' = <<>>
              /\ pc' = "split"
         ELSE IF ExceptClause(exc) = "uncaught"
         THEN /\ pc' = "raised"
              /\ errors' = <<>>
              /\ UNCHANGED content
         ELSE /\ errors' = <<ValidationError(0, ExceptClause(exc), 0, <<>>, 0)>>
              /\ pc' = "done"
              /\ UNCHANGED content
    /\ UNCHANGED <<file, prompts, prompt_idx, used_ids, tag_stack, pos, process,
                   returned, argv, stdout, exit_status>>

(***************************************************************************)
(* _split_into_prompts                                                     *)
(***************************************************************************)
Prompt(prompt_content, start_line) ==
    [prompt_content |-> prompt_content, start_line |-> start_line]

\* "if current_prompt:"
Flush(acc, current_prompt, start_line) ==
    IF current_prompt # <<>>
    THEN Append(acc, Prompt(current_prompt, start_line))
    ELSE acc

\* SplitLoop with "start_line = line_num" at a separator
RECURSIVE SplitLoopStartAtSeparator(_, _, _, _, _)
SplitLoopStartAtSeparator(lines, line_num, current_prompt, start_line, acc) ==
    IF line_num > Len(lines)
    THEN Flush(acc, current_prompt, start_line)
    ELSE IF IsSeparator(lines[line_num])
    THEN SplitLoopStartAtSeparator(lines, line_num + 1, <<>>, line_num,
                                   Flush(acc, current_prompt, start_line))
    ELSE SplitLoopStartAtSeparator(lines, line_num + 1,
                                   Append(current_prompt, lines[line_num]),
                                   start_line, acc)

RECURSIVE SplitLoop(_, _, _, _, _)
SplitLoop(lines, line_num, current_prompt, start_line, acc) ==
    IF line_num > Len(lines)
    THEN Flush(acc, current_prompt, start_line)
    ELSE IF IsSeparator(lines[line_num])
    THEN SplitLoop(lines, line_num + 1, <<>>, line_num + 1,
                   Flush(acc, current_prompt, start_line))
    ELSE SplitLoop(lines, line_num + 1,
                   Append(current_prompt, lines[line_num]), start_line, acc)

split_into_prompts(lines) == SplitLoop(lines, 1, <<>>, 1, <<>>)

SplitIntoPrompts ==
    /\ pc = "split"
    /\ prompts' = split_into_prompts(content)
    /\ prompt_idx' = 0
    /\ pc' = "validate"
    /\ UNCHANGED <<file, content, used_ids, tag_stack, pos, errors, process, returned,
                   argv, stdout, exit_status>>

(***************************************************************************)
(* _validate_attributes, _validate_tag_specific_attributes                 *)
(***************************************************************************)
\* re.findall(attr_pattern, attr_str): the name="value" items
FindAttributes(attr_str) == SelectSeq(attr_str, LAMBDA it : it.form = "quoted")

\* '=' in attr_str
HasEquals(attr_str) == \E i \in 1..Len(attr_str) : attr_str[i].form # "bare"

\* the keys of {name: value for name, _, value in attributes}, in the order
\* a dict iterates them: each name once, at its first position
RECURSIVE DictKeysFrom(_, _, _)
DictKeysFrom(attributes, i, keys) ==
    IF i > Len(attributes) THEN keys
    ELSE DictKeysFrom(attributes, i + 1,
                      IF \E j \in 1..Len(keys) : keys[j] = attributes[i].name
                      THEN keys
                      ELSE Append(keys, attributes[i].name))

DictKeys(attributes) == DictKeysFrom(attributes, 1, <<>>)

\* name in parsed_attrs
HasKey(attributes, name) ==
    \E i \in 1..Len(attributes) : attributes[i].name = name

\* parsed_attrs[name]: a later pair of the same name overwrites an earlier one
DictGet(attributes, name) ==
    LET last == CHOOSE i \in 1..Len(attributes) :
                   /\ attributes[i].name = name
                   /\ \A j \in (i + 1)..Len(attributes) : attributes[j].name # name
    IN attributes[last].value

\* validate_tag_specific_attributes with the three checks chained by elif
validate_tag_specific_first_only(tag_name, attributes, line_number, prompt_number) ==
    IF tag_name # "quote" /\ HasKey(attributes, "authorid")
    THEN <<ValidationError(line_number, "INVALID_ATTRIBUTE_USAGE", prompt_number,
                           <<"authorid", tag_name>>, 0)>>
    ELSE IF tag_name # "quote" /\ HasKey(attributes, "titleid")
    THEN <<ValidationError(line_number, "INVALID_ATTRIBUTE_USAGE", prompt_number,
                           <<"titleid", tag_name>>, 0)>>
    ELSE IF HasKey(attributes, "type") /\ tag_name # "title"
    THEN <<ValidationError(line_number, "INVALID_ATTRIBUTE_USAGE", prompt_number,
                           <<"type", tag_name>>, 0)>>
    ELSE <<>>

validate_tag_specific_attributes(tag_name, attributes, line_number, prompt_number) ==
    (IF tag_name # "quote" /\ HasKey(attributes, "authorid")
     THEN <<ValidationError(line_number, "INVALID_ATTRIBUTE_USAGE", prompt_number,
                            <<"authorid", tag_name>>, 0)>>
     ELSE <<>>)
    \o
    (IF tag_name # "quote" /\ HasKey(attributes, "titleid")
     THEN <<ValidationError(line_number, "INVALID_ATTRIBUTE_USAGE", prompt_number,
                            <<"titleid", tag_name>>, 0)>>
     ELSE <<>>)
    \o
    (IF HasKey(attributes, "type") /\ tag_name # "title"
     THEN <<ValidationError(line_number, "INVALID_ATTRIBUTE_USAGE", prompt_number,
                            <<"type", tag_name>>, 0)>>
     ELSE <<>>)

\* "Validate attribute names": one error for each key that is not valid
InvalidAttributeErrors(attributes, line_number, prompt_number) ==
    LET bad == SelectSeq(DictKeys(attributes),
                         LAMBDA name : name \notin valid_attributes)
    IN [i \in 1..Len(bad) |->
          ValidationError(line_number, "INVALID_ATTRIBUTE", prompt_number,
                          <<bad[i]>>, 0)]

\* "Validate ID uniqueness within prompt"
IsDuplicateId(attributes, ids) ==
    HasKey(attributes, "id") /\ DictGet(attributes, "id") \in ids

DuplicateIdErrors(attributes, line_number, prompt_number, ids) ==
    IF IsDuplicateId(attributes, ids)
    THEN <<ValidationError(line_number, "DUPLICATE_ID", prompt_number,
                           <<DictGet(attributes, "id")>>, 0)>>
    ELSE <<>>

\* "Validate type attribute values"
TypeValueErrors(attributes, line_number, prompt_number) ==
    IF HasKey(attributes, "type") /\ DictGet(attributes, "type") \notin valid_type_values
    THEN <<ValidationError(line_number, "INVALID_TYPE_VALUE", prompt_number,
                           <<DictGet(attributes, "type")>>, 0)>>
    ELSE <<>>

\* the errors _validate_attributes appends, and used_ids after it
validate_attributes(attr_str, line_number, prompt_number, ids, tag_name) ==
    LET attributes == FindAttributes(attr_str) IN
    IF attributes = <<>>
    THEN [errors |-> IF HasEquals(attr_str)
                     THEN <<ValidationError(line_number, "MALFORMED_ATTRIBUTE",
                                            prompt_number, <<>>, 0)>>
                     ELSE <<>>,
          used_ids |-> ids]
    ELSE [errors |-> InvalidAttributeErrors(attributes, line_number, prompt_number)
                     \o DuplicateIdErrors(attributes, line_number, prompt_number, ids)
                     \o TypeValueErrors(attributes, line_number, prompt_number)
                     \o validate_tag_specific_attributes(tag_name, attributes,
                                                         line_number, prompt_number),
          used_ids |-> IF HasKey(attributes, "id")
                       THEN ids \cup {DictGet(attributes, "id")}
                       ELSE ids]

(***************************************************************************)
(* _validate_prompt: the scan of vocabulary and attributes                 *)
(***************************************************************************)
\* OccurrencesFrom scanning the lines from the last to the first
RECURSIVE OccurrencesLastLineFirst(_, _)
OccurrencesLastLineFirst(lines, k) ==
    IF k > Len(lines) THEN <<>>
    ELSE OccurrencesLastLineFirst(lines, k + 1)
         \o [i \in 1..Len(lines[k].tags) |->
               [tag |-> lines[k].tags[i], line_offset |-> k - 1]]

\* the tag occurrences of lines[k..], in reading order, each with the offset
\* of its line (the nested loops over enumerate(lines) and re.findall)
RECURSIVE OccurrencesFrom(_, _)
OccurrencesFrom(lines, k) ==
    IF k > Len(lines) THEN <<>>
    ELSE [i \in 1..Len(lines[k].tags) |->
            [tag |-> lines[k].tags[i], line_offset |-> k - 1]]
         \o OccurrencesFrom(lines, k + 1)

Occurrences(prompt) == OccurrencesFrom(prompt.prompt_content, 1)

\* the body of "for is_closing, tag_name, attributes_str in tags" for one tag
ScanTag(tag, current_line, prompt_number, ids) ==
    IF tag.tag_name \notin valid_tags
    THEN [errors |-> <<ValidationError(current_line, "INVALID_TAG", prompt_number,
                                       <<tag.tag_name>>, 0)>>,
          used_ids |-> ids]
    ELSE IF tag.is_closing
    THEN [errors |-> <<>>, used_ids |-> ids]
    ELSE IF tag.attributes_str # <<>>
    THEN validate_attributes(tag.attributes_str, current_line, prompt_number, ids,
                             tag.tag_name)
    ELSE [errors |-> <<>>, used_ids |-> ids]

\* ValidatePrompt with used_ids kept from the previous prompt
ValidatePromptKeepIds ==
    /\ pc = "validate"
    /\ prompt_idx < Len(prompts)
    /\ pos' = 1
    /\ pc' = "attrs"
    /\ UNCHANGED <<file, content, prompts, prompt_idx, used_ids, tag_stack, errors,
                   process, returned, argv, stdout, exit_status>>

\* validate_file calls _validate_prompt for the next prompt
ValidatePrompt ==
    /\ pc = "validate"
    /\ prompt_idx < Len(prompts)
    /\ used_ids' = {}
    /\ pos' = 1
    /\ pc' = "attrs"
    /\ UNCHANGED <<file, content, prompts, prompt_idx, tag_stack, errors, process,
                   returned, argv, stdout, exit_status>>

\* one iteration of the tag loop of _validate_prompt
ValidateTag ==
    /\ pc = "attrs"
    /\ LET prompt == prompts[prompt_idx + 1]
           occ == Occurrences(prompt)
       IN /\ pos <= Len(occ)
          /\ LET r == ScanTag(occ[pos].tag, prompt.start_line + occ[pos].line_offset,
                              prompt_idx + 1, used_ids)
             IN /\ errors' = errors \o r.errors
                /\ used_ids' = r.used_ids
    /\ pos' = pos + 1
    /\ UNCHANGED <<file, pc, content, prompts, prompt_idx, tag_stack, process, returned,
                   argv, stdout, exit_status>>

(***************************************************************************)
(* _validate_xml_structure                                                 *)
(***************************************************************************)
\* _validate_prompt calls _validate_xml_structure after its last line
ValidateXmlStructure ==
    /\ pc = "attrs"
    /\ pos > Len(Occurrences(prompts[prompt_idx + 1]))
    /\ tag_stack' = <<>>
    /\ pos' = 1
    /\ pc' = "structure"
    /\ UNCHANGED <<file, content, prompts, prompt_idx, used_ids, errors, process,
                   returned, argv, stdout, exit_status>>

StackEntry(tag_name, line) == [tag_name |-> tag_name, line |-> line]

\* ClosingCase without the comparison of names: any open tag is closed
ClosingCaseAnyName(stack, tag_name) ==
    IF stack = <<>> THEN "unmatched" ELSE "matched"

\* the branch a closing tag takes
ClosingCase(stack, tag_name) ==
    IF stack = <<>> THEN "unmatched"
    ELSE IF stack[Len(stack)].tag_name # tag_name THEN "mismatched"
    ELSE "matched"

\* StructureTag without "if tag_name not in self.valid_tags: continue"
StructureTagAnyName(tag, current_line, prompt_number, stack) ==
    IF tag.is_closing
    THEN CASE ClosingCase(stack, tag.tag_name) = "unmatched" ->
                [errors |-> <<ValidationError(current_line, "UNMATCHED_CLOSING_TAG",
                                              prompt_number, <<tag.tag_name>>, 0)>>,
                 tag_stack |-> stack]
           [] ClosingCase(stack, tag.tag_name) = "mismatched" ->
                [errors |-> <<ValidationError(current_line, "MISMATCHED_TAG",
                                              prompt_number,
                                              <<tag.tag_name, stack[Len(stack)].tag_name>>,
                                              stack[Len(stack)].line)>>,
                 tag_stack |-> stack]
           [] OTHER ->
                [errors |-> <<>>, tag_stack |-> SubSeq(stack, 1, Len(stack) - 1)]
    ELSE [errors |-> <<>>, tag_stack |-> Append(stack, [tag_name |-> tag.tag_name, line |-> current_line])]

\* the body of "for is_closing, tag_name in line_tags" for one tag
StructureTag(tag, current_line, prompt_number, stack) ==
    IF tag.tag_name \notin valid_tags
    THEN [errors |-> <<>>, tag_stack |-> stack]
    ELSE IF tag.is_closing
    THEN CASE ClosingCase(stack, tag.tag_name) = "unmatched" ->
                [errors |-> <<ValidationError(current_line, "UNMATCHED_CLOSING_TAG",
                                              prompt_number, <<tag.tag_name>>, 0)>>,
                 tag_stack |-> stack]
           [] ClosingCase(stack, tag.tag_name) = "mismatched" ->
                [errors |-> <<ValidationError(current_line, "MISMATCHED_TAG",
                                              prompt_number,
                                              <<tag.tag_name, stack[Len(stack)].tag_name>>,
                                              stack[Len(stack)].line)>>,
                 tag_stack |-> stack]
           [] OTHER ->
                [errors |-> <<>>, tag_stack |-> SubSeq(stack, 1, Len(stack) - 1)]
    ELSE [errors |-> <<>>, tag_stack |-> Append(stack, StackEntry(tag.tag_name, current_line))]

\* one iteration of the tag loop of _validate_xml_structure
CheckTag ==
    /\ pc = "structure"
    /\ LET prompt == prompts[prompt_idx + 1]
           occ == Occurrences(prompt)
       IN /\ pos <= Len(occ)
          /\ LET r == StructureTag(occ[pos].tag,
                                   prompt.start_line + occ[pos].line_offset,
                                   prompt_idx + 1, tag_stack)
             IN /\ errors' = errors \o r.errors
                /\ tag_stack' = r.tag_stack
    /\ pos' = pos + 1
    /\ UNCHANGED <<file, pc, content, prompts, prompt_idx, used_ids, process, returned,
                   argv, stdout, exit_status>>

\* UnclosedErrors reporting the top of the stack first
UnclosedErrorsTopFirst(stack, prompt_number) ==
    [i \in 1..Len(stack) |->
       ValidationError(stack[Len(stack) + 1 - i].line, "UNCLOSED_TAG", prompt_number,
                       <<stack[Len(stack) + 1 - i].tag_name>>, 0)]

\* UnclosedErrors without the loop over tag_stack
UnclosedErrorsNone(stack, prompt_number) == <<>>

\* "Check for unclosed tags": for tag_name, line_num in tag_stack
UnclosedErrors(stack, prompt_number) ==
    [i \in 1..Len(stack) |->
       ValidationError(stack[i].line, "UNCLOSED_TAG", prompt_number,
                       <<stack[i].tag_name>>, 0)]

\* the end of _validate_xml_structure and of _validate_prompt: the loop of
\* validate_file moves to the next prompt
CheckUnclosed ==
    /\ pc = "structure"
    /\ pos > Len(Occurrences(prompts[prompt_idx + 1]))
    /\ errors' = errors \o UnclosedErrors(tag_stack, prompt_idx + 1)
    /\ prompt_idx' = prompt_idx + 1
    /\ pc' = "validate"
    /\ UNCHANGED <<file, content, prompts, used_ids, tag_stack, pos, process, returned,
                   argv, stdout, exit_status>>

\* _validate_xml_structure as a function of the tag occurrences of a prompt:
\* the errors it appends and the stack it ends with
RECURSIVE NestingPass(_, _, _, _, _, _)
NestingPass(occ, k, start_line, prompt_number, stack, errs) ==
    IF k > Len(occ)
    THEN [errors |-> errs \o UnclosedErrors(stack, prompt_number), tag_stack |-> stack]
    ELSE LET r == StructureTag(occ[k].tag, start_line + occ[k].line_offset,
                               prompt_number, stack)
         IN NestingPass(occ, k + 1, start_line, prompt_number, r.tag_stack,
                        errs \o r.errors)

validate_xml_structure(prompt, prompt_number) ==
    NestingPass(Occurrences(prompt), 1, prompt.start_line, prompt_number, <<>>, <<>>)

\* "return self.errors" after the last prompt
Return ==
    /\ pc = "validate"
    /\ prompt_idx = Len(prompts)
    /\ pc' = "done"
    /\ UNCHANGED <<file, content, prompts, prompt_idx, used_ids, tag_stack, pos, errors,
                   process, returned, argv, stdout, exit_status>>

(***************************************************************************)
(* Writing the file                                                        *)
(***************************************************************************)
WriteLine ==
    /\ pc = "start"
    /\ file.status = "ok"
    /\ \E text \in Texts :
         LET lines == Append(file.lines, Line(text, <<>>)) IN
         /\ InShape(lines)
         /\ file' = [file EXCEPT !.lines = lines]
    /\ UNCHANGED <<pc, content, prompts, prompt_idx, used_ids, tag_stack, pos, errors,
                   process, returned, argv, stdout, exit_status>>

WriteTag ==
    /\ pc = "start"
    /\ file.status = "ok"
    /\ file.lines[Len(file.lines)].text = "x"
    /\ \E t \in StructTags \cup {Tag(FALSE, n, <<it>>) : n \in Names, it \in AttrItems} :
         LET lines == WithTag(file.lines, t) IN
         /\ InShape(lines)
         /\ file' = [file EXCEPT !.lines = lines]
    /\ UNCHANGED <<pc, content, prompts, prompt_idx, used_ids, tag_stack, pos, errors,
                   process, returned, argv, stdout, exit_status>>

WriteAttribute ==
    /\ pc = "start"
    /\ file.status = "ok"
    /\ file.lines[Len(file.lines)].tags # <<>>
    /\ \E it \in AttrItems :
         LET lines == WithItem(file.lines, it) IN
         /\ InShape(lines)
         /\ file' = [file EXCEPT !.lines = lines]
    /\ UNCHANGED <<pc, content, prompts, prompt_idx, used_ids, tag_stack, pos, errors,
                   process, returned, argv, stdout, exit_status>>

(***************************************************************************)
(* The specification                                                       *)
(***************************************************************************)
Init ==
    /\ file \in {[status |-> "ok", lines |-> <<Line(text, <<>>)>>] : text \in Texts}
               \cup {[status |-> st, lines |-> <<>>] : st \in {"missing", "undecodable"}}
    /\ pc = "start"
    /\ content = <<>>
    /\ prompts = <<>>
    /\ prompt_idx = 0
    /\ used_ids = {}
    /\ tag_stack = <<>>
    /\ pos = 1
    /\ errors = <<>>
    /\ process = Process(1, <<>>, <<>>)
    /\ returned = <<>>
    /\ NoCommand

\* the steps of validate_file
ValidateFile ==
    \/ ReadFile
    \/ SplitIntoPrompts
    \/ ValidatePrompt
    \/ ValidateTag
    \/ ValidateXmlStructure
    \/ CheckTag
    \/ CheckUnclosed
    \/ Return

Next ==
    \/ WriteLine
    \/ WriteTag
    \/ WriteAttribute
    \/ ValidateFile

Spec == Init /\ [][Next]_vars

TypeOK ==
    /\ pc \in {"start", "split", "validate", "attrs", "structure", "done", "raised",
              "returned", "main", "exited"}
    /\ prompt_idx \in 0..Len(prompts)
    /\ pos \in 1..(TagCount(content) + 1)

(***************************************************************************)
(* Several calls of validate_file: on one SanskritValidator, on a new one  *)
(* of the same process, or in a new process.  The caller reads each result *)
(* it is returned, messages included.  The message of an error is kept as  *)
(* the values its f-string is formatted from; read by the caller it is     *)
(* these values and, where the f-string joins a set, the elements of the   *)
(* set in the order its process iterates them.                             *)
(***************************************************************************)
MaxCalls == 2   \* calls of validate_file

\* the files the calls are made on
CallFiles ==
    {[status |-> "ok", lines |-> <<Line("x", tags)>>] :
        tags \in {<<>>,
                  <<Tag(FALSE, "foo", <<>>)>>,
                  <<Tag(FALSE, "quote", <<>>)>>,
                  <<Tag(FALSE, "quote", <<Item("quoted", "lang", "a")>>)>>,
                  <<Tag(FALSE, "title", <<Item("quoted", "type", "a")>>),
                    Tag(TRUE, "title", <<>>)>>}}
        \cup {[status |-> "missing", lines |-> <<>>]}

\* the orders in which a set can be iterated
IterationOrders(set) ==
    {order \in [1..Cardinality(set) -> set] :
        \A i, j \in 1..Cardinality(set) : order[i] = order[j] => i = j}

\* ', '.join(set) in a process that iterates the set in `order`
Join(order) == order

\* the message of an error as formatted in process proc
Message(e, proc) ==
    [values |-> e.message,
     joined |-> CASE e.error_type = "INVALID_TAG" -> Join(proc.valid_tags)
                  [] e.error_type = "INVALID_ATTRIBUTE" -> Join(proc.valid_attributes)
                  [] e.error_type = "INVALID_TYPE_VALUE" ->
                        Join(CHOOSE order \in IterationOrders(valid_type_values) : TRUE)
                  [] OTHER -> <<>>]

\* a list of errors as its caller reads it
Read(errs, proc) ==
    [i \in 1..Len(errs) |->
        [line_number |-> errs[i].line_number, error_type |-> errs[i].error_type,
         message |-> Message(errs[i], proc)]]

\* the process once the messages of errs have been read: the order of a
\* set that one of them joins is the one the process has had from its start
Observed(proc, errs) ==
    LET joins(error_type) == \E i \in 1..Len(errs) : errs[i].error_type = error_type
        orders(order, set, error_type) ==
            IF order = <<>> /\ joins(error_type) THEN IterationOrders(set) ELSE {order}
    IN {Process(proc.pid, t, a) :
          t \in orders(proc.valid_tags, valid_tags, "INVALID_TAG"),
          a \in orders(proc.valid_attributes, valid_attributes, "INVALID_ATTRIBUTE")}

\* the file on disk before a call
WriteFile ==
    /\ pc = "start"
    /\ file' \in CallFiles
    /\ UNCHANGED <<pc, content, prompts, prompt_idx, used_ids, tag_stack, pos, errors,
                   process, returned, argv, stdout, exit_status>>

\* the caller of validate_file receives self.errors and reads it
TakeResult ==
    /\ pc = "done"
    /\ \E proc \in Observed(process, errors) :
          /\ process' = proc
          /\ returned' = Append(returned, [file |-> file, pid |-> proc.pid,
                                           errors |-> Read(errors, proc)])
    /\ pc' = "returned"
    /\ UNCHANGED <<file, content, prompts, prompt_idx, used_ids, tag_stack, pos, errors,
                   argv, stdout, exit_status>>

\* validate_file is called again on the same SanskritValidator: self.errors
\* is still the list of the call before
CallAgain ==
    /\ pc = "returned"
    /\ Len(returned) < MaxCalls
    /\ pc' = "start"
    /\ UNCHANGED <<file, content, prompts, prompt_idx, used_ids, tag_stack, pos, errors,
                   process, returned, argv, stdout, exit_status>>

\* SanskritValidator() in the same process, and a call on it
NewInstance ==
    /\ pc = "returned"
    /\ Len(returned) < MaxCalls
    /\ errors' = <<>>
    /\ pc' = "start"
    /\ UNCHANGED <<file, content, prompts, prompt_idx, used_ids, tag_stack, pos, process,
                   returned, argv, stdout, exit_status>>

\* the validator is run again: a new process, SanskritValidator() and a call
NewProcess ==
    /\ pc = "returned"
    /\ Len(returned) < MaxCalls
    /\ process' = Process(process.pid + 1, <<>>, <<>>)
    /\ errors' = <<>>
    /\ pc' = "start"
    /\ UNCHANGED <<file, content, prompts, prompt_idx, used_ids, tag_stack, pos,
                   returned, argv, stdout, exit_status>>

InitCalls ==
    /\ file \in CallFiles
    /\ pc = "start"
    /\ content = <<>>
    /\ prompts = <<>>
    /\ prompt_idx = 0
    /\ used_ids = {}
    /\ tag_stack = <<>>
    /\ pos = 1
    /\ errors = <<>>
    /\ process = Process(1, <<>>, <<>>)
    /\ returned = <<>>
    /\ NoCommand

NextCalls ==
    \/ WriteFile
    \/ ValidateFile
    \/ TakeResult
    \/ CallAgain
    \/ NewInstance
    \/ NewProcess

SpecCalls == InitCalls /\ [][NextCalls]_vars

(***************************************************************************)
(* main: the validator command                                             *)
(***************************************************************************)
\* error_type.replace('_', ' ').title()
Title(error_type) ==
    CASE error_type = "FILE_ERROR" -> "File Error"
      [] error_type = "ENCODING_ERROR" -> "Encoding Error"
      [] error_type = "INVALID_TAG" -> "Invalid Tag"
      [] error_type = "MALFORMED_ATTRIBUTE" -> "Malformed Attribute"
      [] error_type = "INVALID_ATTRIBUTE" -> "Invalid Attribute"
      [] error_type = "DUPLICATE_ID" -> "Duplicate Id"
      [] error_type = "INVALID_TYPE_VALUE" -> "Invalid Type Value"
      [] error_type = "INVALID_ATTRIBUTE_USAGE" -> "Invalid Attribute Usage"
      [] error_type = "UNMATCHED_CLOSING_TAG" -> "Unmatched Closing Tag"
      [] error_type = "MISMATCHED_TAG" -> "Mismatched Tag"
      [] error_type = "UNCLOSED_TAG" -> "Unclosed Tag"

\* the keys of error_groups: the error types in the order of their first error
RECURSIVE GroupKeys(_, _, _)
GroupKeys(errs, i, keys) ==
    IF i > Len(errs) THEN keys
    ELSE GroupKeys(errs, i + 1,
                   IF \E j \in 1..Len(keys) : keys[j] = errs[i].error_type
                   THEN keys
                   ELSE Append(keys, errs[i].error_type))

\* the lines printed for the groups keys[k..]
RECURSIVE PrintGroups(_, _, _)
PrintGroups(errs, keys, k) ==
    IF k > Len(keys) THEN <<>>
    ELSE LET error_list == SelectSeq(errs, LAMBDA e : e.error_type = keys[k])
         IN <<[line |-> "##", title |-> Title(keys[k])]>>
            \o [i \in 1..Len(error_list) |->
                  [line |-> "Line", line_number |-> error_list[i].line_number,
                   message |-> error_list[i].message]]
            \o <<[line |-> ""]>>
            \o PrintGroups(errs, keys, k + 1)

\* the else branch of "if not errors"
PrintReport(errs) ==
    <<[line |-> "Found", count |-> Len(errs)], [line |-> ""]>>
        \o PrintGroups(errs, GroupKeys(errs, 1, <<>>), 1)

\* "if len(sys.argv) != 2": the usage line and sys.exit(1)
MainUsage ==
    /\ pc = "main"
    /\ Len(argv) # 2
    /\ stdout' = <<[line |-> "Usage"]>>
    /\ exit_status' = 1
    /\ pc' = "exited"
    /\ UNCHANGED <<file, content, prompts, prompt_idx, used_ids, tag_stack, pos, errors,
                   process, returned, argv>>

\* validator = SanskritValidator(); validator.validate_file(filename)
MainValidate ==
    /\ pc = "main"
    /\ Len(argv) = 2
    /\ errors' = <<>>
    /\ pc' = "start"
    /\ UNCHANGED <<file, content, prompts, prompt_idx, used_ids, tag_stack, pos, process,
                   returned, argv, stdout, exit_status>>

\* MainReport without the sys.exit(1) that ends the report
MainReportNoExit ==
    /\ pc = "done"
    /\ stdout' = IF errors = <<>> THEN <<[line |-> "valid"]>> ELSE PrintReport(errors)
    /\ exit_status' = 0
    /\ pc' = "exited"
    /\ UNCHANGED <<file, content, prompts, prompt_idx, used_ids, tag_stack, pos, errors,
                   process, returned, argv>>

\* "if not errors": the success line, and main returns (status 0); else the
\* report and sys.exit(1)
MainReport ==
    /\ pc = "done"
    /\ IF errors = <<>>
       THEN /\ stdout' = <<[line |-> "valid"]>>
            /\ exit_status' = 0
       ELSE /\ stdout' = PrintReport(errors)
            /\ exit_status' = 1
    /\ pc' = "exited"
    /\ UNCHANGED <<file, content, prompts, prompt_idx, used_ids, tag_stack, pos, errors,
                   process, returned, argv>>

\* the command line: the name of the script and up to two arguments
InitMain ==
    /\ file \in {[status |-> "ok", lines |-> <<Line(text, <<>>)>>] : text \in Texts}
               \cup {[status |-> st, lines |-> <<>>] : st \in {"missing", "undecodable"}}
    /\ pc = "main"
    /\ content = <<>>
    /\ prompts = <<>>
    /\ prompt_idx = 0
    /\ used_ids = {}
    /\ tag_stack = <<>>
    /\ pos = 1
    /\ errors = <<>>
    /\ process = Process(1, <<>>, <<>>)
    /\ returned = <<>>
    /\ argv \in {<<"validate.py">>, <<"validate.py", "f">>, <<"validate.py", "f", "g">>}
    /\ stdout = <<>>
    /\ exit_status = -1

NextMain ==
    \/ MainUsage
    \/ MainValidate
    \/ WriteLine
    \/ WriteTag
    \/ WriteAttribute
    \/ ValidateFile
    \/ MainReport

SpecMain == InitMain /\ [][NextMain]_vars

(***************************************************************************)
(* The nesting pass on words of tags: validate_file on the files of one    *)
(* line that carries up to MaxWord tags without attributes.                *)
(***************************************************************************)
MaxWord == 4   \* tags of the line

Words ==
    UNION {[1..n -> {Tag(c, name, <<>>) : c \in BOOLEAN, name \in Names}] : n \in 0..MaxWord}

InitNesting ==
    /\ file \in {[status |-> "ok", lines |-> <<Line("x", word)>>] : word \in Words}
    /\ pc = "start"
    /\ content = <<>>
    /\ prompts = <<>>
    /\ prompt_idx = 0
    /\ used_ids = {}
    /\ tag_stack = <<>>
    /\ pos = 1
    /\ errors = <<>>
    /\ process = Process(1, <<>>, <<>>)
    /\ returned = <<>>
    /\ NoCommand

NextNesting == ValidateFile

SpecNesting == InitNesting /\ [][NextNesting]_vars

(***************************************************************************)
(* Vocabulary of the properties                                            *)
(***************************************************************************)
\* the prompt being validated, its tag occurrences, and the file line of one
CurrentPrompt == prompts[prompt_idx + 1]
CurrentOccurrences == Occurrences(CurrentPrompt)
LineOf(occurrence) == CurrentPrompt.start_line + occurrence.line_offset

\* errors' is errors with the sequence `new` appended
Appended(new) == errors' = errors \o new

HasError(error_type) == \E i \in 1..Len(errors) : errors[i].error_type = error_type

\* a step of the tag loop of _validate_xml_structure
StructureStep == pc = "structure" /\ pc' = "structure" /\ pos' = pos + 1

\* a step of the tag loop of _validate_prompt
ScanStep == pc = "attrs" /\ pc' = "attrs" /\ pos' = pos + 1

(***************************************************************************)
(* C1: in the nesting pass an opening tag of the valid vocabulary pushes   *)
(* (name, line) and emits no error; a closing tag emits exactly            *)
(* UNMATCHED_CLOSING_TAG when the stack is empty, exactly MISMATCHED_TAG   *)
(* when the top of the stack has another name, and otherwise pops the top  *)
(* and emits nothing; the stack changes only in the matched case.          *)
(***************************************************************************)
C1_NestingStep ==
    [][StructureStep =>
         LET o == CurrentOccurrences[pos]
             t == o.tag
             top == tag_stack[Len(tag_stack)]
         IN t.tag_name \in valid_tags =>
              IF ~t.is_closing
              THEN /\ tag_stack' = Append(tag_stack, StackEntry(t.tag_name, LineOf(o)))
                   /\ errors' = errors
              ELSE IF tag_stack = <<>>
              THEN /\ Appended(<<ValidationError(LineOf(o), "UNMATCHED_CLOSING_TAG",
                                                 prompt_idx + 1, <<t.tag_name>>, 0)>>)
                   /\ tag_stack' = tag_stack
              ELSE IF top.tag_name # t.tag_name
              THEN /\ Appended(<<ValidationError(LineOf(o), "MISMATCHED_TAG",
                                                 prompt_idx + 1,
                                                 <<t.tag_name, top.tag_name>>, top.line)>>)
                   /\ tag_stack' = tag_stack
              ELSE /\ errors' = errors
                   /\ tag_stack' = SubSeq(tag_stack, 1, Len(tag_stack) - 1)
      ]_vars

\* a closing tag met an open tag of another name, which stays on the stack
C1_Witness ==
    /\ pc = "structure"
    /\ tag_stack # <<>>
    /\ pos > 1
    /\ CurrentOccurrences[pos - 1].tag.is_closing
    /\ errors # <<>>
    /\ errors[Len(errors)].error_type = "MISMATCHED_TAG"

(***************************************************************************)
(* C2: after the scan of a sample every tag left on the stack yields one   *)
(* UNCLOSED_TAG error at its opening line.  As claimed: the errors are     *)
(* appended with the most recently opened tag first.  As amended: they are *)
(* appended from the bottom of the stack, the earliest opened tag first.   *)
(***************************************************************************)
\* the last n errors
LastErrors(n) == SubSeq(errors, Len(errors) - n + 1, Len(errors))

\* the unclosed-tag loop of the latest sample has run (tag_stack is its stack)
AfterUnclosedLoop == pc \in {"validate", "done"} /\ prompt_idx > 0

C2_MostRecentFirst ==
    AfterUnclosedLoop =>
        /\ Len(errors) >= Len(tag_stack)
        /\ LastErrors(Len(tag_stack)) =
             [i \in 1..Len(tag_stack) |->
                ValidationError(tag_stack[Len(tag_stack) + 1 - i].line, "UNCLOSED_TAG",
                                prompt_idx,
                                <<tag_stack[Len(tag_stack) + 1 - i].tag_name>>, 0)]

C2_EarliestFirst ==
    AfterUnclosedLoop =>
        /\ Len(errors) >= Len(tag_stack)
        /\ LastErrors(Len(tag_stack)) =
             [i \in 1..Len(tag_stack) |->
                ValidationError(tag_stack[i].line, "UNCLOSED_TAG", prompt_idx,
                                <<tag_stack[i].tag_name>>, 0)]
        /\ \A i \in 1..(Len(errors) - Len(tag_stack)) :
              errors[i].error_type = "UNCLOSED_TAG"
                  => errors[i].message.prompt_number < prompt_idx

\* two different tags are left open at the end of a sample
C2_Witness ==
    /\ AfterUnclosedLoop
    /\ Len(tag_stack) = 2
    /\ tag_stack[1].tag_name # tag_stack[2].tag_name

(***************************************************************************)
(* C3: within one sample DUPLICATE_ID is emitted for an `id` attribute     *)
(* occurrence on an opening valid tag exactly when its value was seen on   *)
(* an earlier `id` occurrence of the sample, so that the DUPLICATE_ID      *)
(* errors of a sample number its `id` occurrences minus its distinct `id`  *)
(* values.                                                                 *)
(***************************************************************************)
IsValidOpening(tag) == tag.tag_name \in valid_tags /\ ~tag.is_closing

\* the values of the id="..." items of a tag, in order (none for a closing
\* tag or a tag outside the vocabulary)
IdValues(tag) ==
    IF IsValidOpening(tag)
    THEN LET ids == SelectSeq(tag.attributes_str,
                              LAMBDA it : it.form = "quoted" /\ it.name = "id")
         IN [i \in 1..Len(ids) |-> ids[i].value]
    ELSE <<>>

\* the values of the id occurrences of occurrences 1..n, in file order
RECURSIVE IdOccurrences(_, _)
IdOccurrences(occ, n) ==
    IF n = 0 THEN <<>> ELSE IdOccurrences(occ, n - 1) \o IdValues(occ[n].tag)

Values(seq) == {seq[i] : i \in 1..Len(seq)}

ErrorsOf(prompt_number, error_type) ==
    {i \in 1..Len(errors) : /\ errors[i].error_type = error_type
                            /\ errors[i].message.prompt_number = prompt_number}

C3_DuplicatePerOccurrence ==
    pc = "done" =>
        \A p \in 1..Len(prompts) :
            LET occ == Occurrences(prompts[p])
                ids == IdOccurrences(occ, Len(occ))
            IN Cardinality(ErrorsOf(p, "DUPLICATE_ID"))
                   = Len(ids) - Cardinality(Values(ids))

(***************************************************************************)
(* C4: tag scope and id scope never cross a sample boundary.  The ids seen *)
(* and the tags on the stack are those of the sample being validated (so   *)
(* both are empty when a sample starts); an UNCLOSED_TAG error of a sample *)
(* names a line of that sample; a DUPLICATE_ID error of a sample names a   *)
(* value that two tags of that sample carry.                               *)
(***************************************************************************)
LinesOfPrompt(prompt) ==
    prompt.start_line..(prompt.start_line + Len(prompt.prompt_content) - 1)

C4_SampleScope ==
    /\ pc = "attrs" =>
          used_ids \subseteq Values(IdOccurrences(CurrentOccurrences, pos - 1))
    /\ pc = "structure" =>
          \A i \in 1..Len(tag_stack) :
              \E k \in 1..(pos - 1) :
                  /\ IsValidOpening(CurrentOccurrences[k].tag)
                  /\ tag_stack[i] = StackEntry(CurrentOccurrences[k].tag.tag_name,
                                               LineOf(CurrentOccurrences[k]))
    /\ \A i \in 1..Len(errors) :
          LET p == errors[i].message.prompt_number IN
          /\ errors[i].error_type = "UNCLOSED_TAG" =>
                errors[i].line_number \in LinesOfPrompt(prompts[p])
          /\ errors[i].error_type = "DUPLICATE_ID" =>
                LET occ == Occurrences(prompts[p]) IN
                \E j, k \in 1..Len(occ) :
                    /\ j < k
                    /\ errors[i].message.names[1] \in Values(IdValues(occ[j].tag))
                    /\ errors[i].message.names[1] \in Values(IdValues(occ[k].tag))

\* a tag left open in sample 1 was reported there, and its closing tag in
\* sample 2 found the stack empty
C4_Witness ==
    /\ pc = "done"
    /\ \E i, j \in 1..Len(errors) :
          /\ errors[i].error_type = "UNCLOSED_TAG"
          /\ errors[i].message.prompt_number = 1
          /\ errors[j].error_type = "UNMATCHED_CLOSING_TAG"
          /\ errors[j].message.prompt_number = 2
          /\ errors[j].message.names = errors[i].message.names

(***************************************************************************)
(* C5: the splitter emits a span as a sample only if one of its lines is   *)
(* non-whitespace; a file of `---` lines and blank lines has no sample.    *)
(***************************************************************************)
C5_OnlyNonBlankSamples ==
    pc \in {"validate", "attrs", "structure", "done"} /\ file.status = "ok" =>
        /\ \A i \in 1..Len(prompts) :
              \E j \in 1..Len(prompts[i].prompt_content) :
                  IsNonBlank(prompts[i].prompt_content[j])
        /\ (\A j \in 1..Len(content) : IsSeparator(content[j]) \/ ~IsNonBlank(content[j]))
              => prompts = <<>>

(***************************************************************************)
(* C6: the prompt number given to _validate_prompt for the k-th span that  *)
(* has a non-whitespace line is k, whatever empty or whitespace-only spans *)
(* come before it.                                                         *)
(***************************************************************************)
\* the lines at which a span starts: line 1 and the line after each `---`
SpanStarts(lines) ==
    {1} \cup {i + 1 : i \in {j \in 1..Len(lines) : IsSeparator(lines[j])}}

\* the span that starts at line a has a non-whitespace line
SpanNonBlank(lines, a) ==
    \E i \in a..Len(lines) :
        /\ IsNonBlank(lines[i])
        /\ \A j \in a..i : ~IsSeparator(lines[j])

\* the rank of the span starting at line a among the non-blank spans
SpanRank(lines, a) ==
    Cardinality({b \in SpanStarts(lines) : b <= a /\ SpanNonBlank(lines, b)})

C6_NumberCountsNonBlankSpans ==
    (pc \in {"attrs", "structure"} /\ SpanNonBlank(content, CurrentPrompt.start_line))
        => prompt_idx + 1 = SpanRank(content, CurrentPrompt.start_line)

(***************************************************************************)
(* C7: validate_file never raises on markup: it ends, and only by          *)
(* returning its list of errors.  A missing or undecodable file returns    *)
(* exactly one FILE_ERROR or ENCODING_ERROR entry, with nothing split or   *)
(* validated.  Every step after the read decreases StepsLeft, which stays  *)
(* a natural number and is zero only once validate_file has returned.      *)
(***************************************************************************)
MarkupKinds ==
    {"INVALID_TAG", "MALFORMED_ATTRIBUTE", "INVALID_ATTRIBUTE", "DUPLICATE_ID",
     "INVALID_TYPE_VALUE", "INVALID_ATTRIBUTE_USAGE", "UNMATCHED_CLOSING_TAG",
     "MISMATCHED_TAG", "UNCLOSED_TAG"}

\* the steps prompts k.. take: each its two tag loops and three calls
RECURSIVE StepsOfPrompts(_)
StepsOfPrompts(k) ==
    IF k > Len(prompts) THEN 0
    ELSE 2 * TagCount(prompts[k].prompt_content) + 3 + StepsOfPrompts(k + 1)

StepsLeft ==
    CASE pc = "split" -> 2 + 2 * TagCount(content) + 3 * Len(content)
      [] pc = "validate" -> 1 + StepsOfPrompts(prompt_idx + 1)
      [] pc = "attrs" -> StepsOfPrompts(prompt_idx + 1) - pos + 1
      [] pc = "structure" ->
            StepsOfPrompts(prompt_idx + 1) - TagCount(CurrentPrompt.prompt_content)
                - pos
      [] OTHER -> 0

C7_Returned ==
    /\ pc # "raised"
    /\ StepsLeft >= 0
    /\ pc \in {"split", "validate", "attrs", "structure"} => StepsLeft > 0
    /\ pc = "done" =>
          IF file.status = "ok"
          THEN \A i \in 1..Len(errors) :
                  /\ errors[i].error_type \in MarkupKinds
                  /\ errors[i].line_number \in 1..Len(content)
          ELSE /\ Len(errors) = 1
               /\ errors[1].error_type =
                     (IF file.status = "missing" THEN "FILE_ERROR" ELSE "ENCODING_ERROR")
               /\ prompts = <<>>
               /\ content = <<>>

C7_NeverRaises ==
    /\ []C7_Returned
    /\ [][pc # "start" => StepsLeft' < StepsLeft]_vars

\* a file with malformed markup was validated to the end
C7_Witness ==
    /\ pc = "done"
    /\ HasError("MALFORMED_ATTRIBUTE")
    /\ HasError("UNCLOSED_TAG")

(***************************************************************************)
(* C8: a tag outside the vocabulary yields exactly one INVALID_TAG error   *)
(* and no attribute check, and the nesting pass passes over it: the stack  *)
(* and the nesting errors of a sample are those of the sample without its  *)
(* invalid tags.                                                           *)
(***************************************************************************)
NestingKinds == {"UNMATCHED_CLOSING_TAG", "MISMATCHED_TAG", "UNCLOSED_TAG"}

NestingErrorsOf(prompt_number) ==
    SelectSeq(errors, LAMBDA e : /\ e.error_type \in NestingKinds
                                 /\ e.message.prompt_number = prompt_number)

\* the prompt with every tag outside the vocabulary removed from its lines
WithoutInvalidTags(prompt) ==
    [prompt EXCEPT !.prompt_content =
        [i \in 1..Len(@) |->
            [@[i] EXCEPT !.tags = SelectSeq(@, LAMBDA t : t.tag_name \in valid_tags)]]]

InvalidOccurrences(prompt) ==
    {k \in 1..Len(Occurrences(prompt)) :
        Occurrences(prompt)[k].tag.tag_name \notin valid_tags}

C8_InvalidTagIgnored ==
    /\ [](pc = "done" /\ file.status = "ok" =>
            \A p \in 1..Len(prompts) :
                /\ NestingErrorsOf(p)
                     = validate_xml_structure(WithoutInvalidTags(prompts[p]), p).errors
                /\ Cardinality(ErrorsOf(p, "INVALID_TAG"))
                     = Cardinality(InvalidOccurrences(prompts[p])))
    /\ [](AfterUnclosedLoop =>
            tag_stack = validate_xml_structure(WithoutInvalidTags(prompts[prompt_idx]),
                                               prompt_idx).tag_stack)
    /\ [][ScanStep /\ CurrentOccurrences[pos].tag.tag_name \notin valid_tags =>
            /\ Appended(<<ValidationError(LineOf(CurrentOccurrences[pos]), "INVALID_TAG",
                                          prompt_idx + 1,
                                          <<CurrentOccurrences[pos].tag.tag_name>>, 0)>>)
            /\ used_ids' = used_ids]_vars
    /\ [][StructureStep /\ CurrentOccurrences[pos].tag.tag_name \notin valid_tags =>
            /\ errors' = errors
            /\ tag_stack' = tag_stack]_vars

\* an invalid tag stood before a closing tag that found the stack empty
C8_Witness ==
    /\ pc = "done"
    /\ Len(errors) = 2
    /\ errors[1].error_type = "INVALID_TAG"
    /\ errors[2].error_type = "UNMATCHED_CLOSING_TAG"
    /\ errors[1].line_number = errors[2].line_number

(***************************************************************************)
(* C9: the order of the errors.  As claimed: by sample, and within a       *)
(* sample by non-decreasing line number.  As amended: by sample; within a  *)
(* sample the errors of the vocabulary and attribute scan, then the        *)
(* closing-tag errors of the nesting pass, then the UNCLOSED_TAG errors;   *)
(* within each of these groups by non-decreasing line number, and within a *)
(* line tag by tag from left to right (each step of a tag loop appends the *)
(* errors of its one tag, at the tag's line).                              *)
(***************************************************************************)
PromptOf(e) == e.message.prompt_number

C9_LineOrderWithinSample ==
    \A i, j \in 1..Len(errors) :
        i < j =>
            \/ PromptOf(errors[i]) < PromptOf(errors[j])
            \/ /\ PromptOf(errors[i]) = PromptOf(errors[j])
               /\ errors[i].line_number <= errors[j].line_number

GroupOf(e) ==
    CASE e.error_type = "UNCLOSED_TAG" -> 3
      [] e.error_type \in {"UNMATCHED_CLOSING_TAG", "MISMATCHED_TAG"} -> 2
      [] OTHER -> 1

OrderedByPass ==
    \A i, j \in 1..Len(errors) :
        i < j =>
            \/ PromptOf(errors[i]) < PromptOf(errors[j])
            \/ /\ PromptOf(errors[i]) = PromptOf(errors[j])
               /\ GroupOf(errors[i]) < GroupOf(errors[j])
            \/ /\ PromptOf(errors[i]) = PromptOf(errors[j])
               /\ GroupOf(errors[i]) = GroupOf(errors[j])
               /\ errors[i].line_number <= errors[j].line_number

C9_DiscoveryOrder ==
    /\ []OrderedByPass
    /\ [][ScanStep \/ StructureStep =>
            /\ Len(errors') >= Len(errors)
            /\ SubSeq(errors', 1, Len(errors)) = errors
            /\ \A i \in (Len(errors) + 1)..Len(errors') :
                  /\ errors'[i].line_number = LineOf(CurrentOccurrences[pos])
                  /\ PromptOf(errors'[i]) = prompt_idx + 1]_vars

\* an error of the scan at a later line precedes a nesting error at an
\* earlier line of the same sample
C9_Witness ==
    /\ pc = "done"
    /\ \E i, j \in 1..Len(errors) :
          /\ i < j
          /\ PromptOf(errors[i]) = PromptOf(errors[j])
          /\ errors[i].line_number > errors[j].line_number

(***************************************************************************)
(* C10: the attribute checks of one tag are cumulative.  For an opening    *)
(* valid tag with a parsed attribute, INVALID_ATTRIBUTE_USAGE is emitted   *)
(* once for authorid and once for titleid when present on a tag other than *)
(* quote, and once for type when present on a tag other than title,        *)
(* whatever other errors the tag gets; a quote tag with only authorid,     *)
(* titleid and a fresh id gets none.                                       *)
(***************************************************************************)
Present(tag, name) ==
    \E i \in 1..Len(tag.attributes_str) :
        /\ tag.attributes_str[i].form = "quoted"
        /\ tag.attributes_str[i].name = name

UsageExpected(tag, line_number, prompt_number) ==
    LET usage(name) == <<ValidationError(line_number, "INVALID_ATTRIBUTE_USAGE",
                                         prompt_number, <<name, tag.tag_name>>, 0)>>
    IN (IF Present(tag, "authorid") /\ tag.tag_name # "quote"
        THEN usage("authorid") ELSE <<>>)
       \o (IF Present(tag, "titleid") /\ tag.tag_name # "quote"
           THEN usage("titleid") ELSE <<>>)
       \o (IF Present(tag, "type") /\ tag.tag_name # "title"
           THEN usage("type") ELSE <<>>)

WellFormedQuote(tag, ids) ==
    /\ tag.tag_name = "quote"
    /\ \A i \in 1..Len(tag.attributes_str) :
          /\ tag.attributes_str[i].form = "quoted"
          /\ tag.attributes_str[i].name \in {"authorid", "titleid", "id"}
          /\ tag.attributes_str[i].name = "id" => tag.attributes_str[i].value \notin ids

C10_CumulativeChecks ==
    [][ScanStep =>
         LET o == CurrentOccurrences[pos]
             new == SubSeq(errors', Len(errors) + 1, Len(errors'))
         IN (IsValidOpening(o.tag) /\ \E name \in valid_attributes \cup {"lang"} :
                                         Present(o.tag, name)) =>
               /\ SelectSeq(new, LAMBDA e : e.error_type = "INVALID_ATTRIBUTE_USAGE")
                     = UsageExpected(o.tag, LineOf(o), prompt_idx + 1)
               /\ WellFormedQuote(o.tag, used_ids) => new = <<>>
      ]_vars

\* one tag got INVALID_ATTRIBUTE and then INVALID_ATTRIBUTE_USAGE
C10_Witness ==
    /\ pc = "attrs"
    /\ Len(errors) >= 2
    /\ errors[Len(errors) - 1].error_type = "INVALID_ATTRIBUTE"
    /\ errors[Len(errors)].error_type = "INVALID_ATTRIBUTE_USAGE"
    /\ errors[Len(errors) - 1].line_number = errors[Len(errors)].line_number

(***************************************************************************)
(* C11: every error of a tag carries the 1-based line number of that tag   *)
(* in the file (an UNCLOSED_TAG error the line of the opening tag).  The   *)
(* span of a sample starts at line 1 or right after a `---` on line d, its *)
(* lines are the lines d + 1, d + 2, ... of the file up to the next `---`, *)
(* blank lines included, and a tag on the k-th of them is reported at      *)
(* line d + k.                                                             *)
(***************************************************************************)
\* the tag occurrences of the span of the file that holds line i, from line
\* i on, each with its line number in the file
RECURSIVE SpanOccurrences(_, _)
SpanOccurrences(lines, i) ==
    IF i > Len(lines) \/ IsSeparator(lines[i]) THEN <<>>
    ELSE [j \in 1..Len(lines[i].tags) |-> [tag |-> lines[i].tags[j], line |-> i]]
         \o SpanOccurrences(lines, i + 1)

\* the prompt is a span of the file: it starts at start_line = d + 1, its
\* k-th line is line d + k of the file, and it ends at a `---` or at the end
IsSpanOfFile(prompt) ==
    LET d == prompt.start_line - 1
        n == Len(prompt.prompt_content)
    IN /\ d + 1 \in SpanStarts(content)
       /\ d + n <= Len(content)
       /\ \A k \in 1..n : /\ prompt.prompt_content[k] = content[d + k]
                          /\ ~IsSeparator(content[d + k])
       /\ d + n = Len(content) \/ IsSeparator(content[d + n + 1])

\* the tag of the file that the running loop is at
TagInFile == SpanOccurrences(content, CurrentPrompt.start_line)[pos]

\* the errors a step appends
NewErrors == SubSeq(errors', Len(errors) + 1, Len(errors'))

C11_LinesInvariant ==
    /\ pc \in {"attrs", "structure"} =>
          /\ IsSpanOfFile(CurrentPrompt)
          /\ Len(SpanOccurrences(content, CurrentPrompt.start_line))
                = Len(CurrentOccurrences)
    /\ pc = "structure" =>
          \A i \in 1..Len(tag_stack) :
              \E k \in 1..(pos - 1) :
                  LET o == SpanOccurrences(content, CurrentPrompt.start_line)[k] IN
                  /\ IsValidOpening(o.tag)
                  /\ tag_stack[i] = StackEntry(o.tag.tag_name, o.line)

C11_LineNumbers ==
    /\ []C11_LinesInvariant
    /\ [][ScanStep \/ StructureStep =>
            /\ TagInFile.tag = CurrentOccurrences[pos].tag
            /\ \A i \in 1..Len(NewErrors) : NewErrors[i].line_number = TagInFile.line
            /\ Len(tag_stack') > Len(tag_stack) =>
                  tag_stack'[Len(tag_stack')].line = TagInFile.line]_vars
    /\ [][pc = "structure" /\ pc' = "validate" =>
            /\ Len(NewErrors) = Len(tag_stack)
            /\ \A i \in 1..Len(tag_stack) :
                  /\ NewErrors[i].error_type = "UNCLOSED_TAG"
                  /\ NewErrors[i].line_number = tag_stack[i].line]_vars

\* a tag on the second line of a span that starts after a `---` on line 1
\* and opens with a blank line was reported at line 3
C11_Witness ==
    /\ pc = "done"
    /\ Len(content) = 3
    /\ IsSeparator(content[1])
    /\ ~IsNonBlank(content[2])
    /\ \E i \in 1..Len(errors) :
          errors[i].line_number = 3 /\ errors[i].error_type = "UNCLOSED_TAG"

(***************************************************************************)
(* C12: the result of validate_file depends only on the content of the     *)
(* file: two calls on the same file, on one SanskritValidator or on two,   *)
(* return equal sequences of errors, and no error of an earlier call is in *)
(* the result of a later one.                                              *)
(***************************************************************************)
C12_DependsOnFileOnly ==
    \A i, j \in 1..Len(returned) :
        returned[i].file = returned[j].file => returned[i].errors = returned[j].errors

\* the same, for calls made in one process
C12_EqualWithinProcess ==
    \A i, j \in 1..Len(returned) :
        (returned[i].file = returned[j].file /\ returned[i].pid = returned[j].pid)
            => returned[i].errors = returned[j].errors

\* and across processes, but for the order of the joined sets
C12_EqualButForJoins ==
    \A i, j \in 1..Len(returned) :
        returned[i].file = returned[j].file =>
            /\ Len(returned[i].errors) = Len(returned[j].errors)
            /\ \A k \in 1..Len(returned[i].errors) :
                  LET a == returned[i].errors[k]
                      b == returned[j].errors[k]
                  IN /\ a.line_number = b.line_number
                     /\ a.error_type = b.error_type
                     /\ a.message.values = b.message.values
                     /\ Values(a.message.joined) = Values(b.message.joined)

(***************************************************************************)
(* C13: the validator command, given one filename, exits with a status     *)
(* other than zero exactly when validate_file returned at least one error; *)
(* when it returned none, the command prints the success message and ends  *)
(* with status zero.  It has no status before validate_file has returned.  *)
(***************************************************************************)
C13_ExitStatus ==
    Len(argv) = 2 =>
        /\ pc = "exited" =>
              /\ exit_status # 0 <=> errors # <<>>
              /\ exit_status \in {0, 1}
              /\ errors = <<>> => stdout = <<[line |-> "valid"]>> /\ exit_status = 0
              /\ errors # <<>> =>
                    /\ stdout[1] = [line |-> "Found", count |-> Len(errors)]
                    /\ Cardinality({i \in 1..Len(stdout) : stdout[i].line = "Line"})
                          = Len(errors)
        /\ pc # "exited" => exit_status = -1 /\ stdout = <<>>

\* the command ended with status zero on a file with a closed pair of tags
C13_Witness ==
    /\ pc = "exited"
    /\ exit_status = 0
    /\ Len(argv) = 2
    /\ TagCount(content) = 2
    /\ prompts # <<>>

(***************************************************************************)
(* C14: the nesting pass is exact.  A sample gets no                       *)
(* UNMATCHED_CLOSING_TAG, MISMATCHED_TAG or UNCLOSED_TAG error exactly     *)
(* when its tags of the valid vocabulary, in reading order, form a         *)
(* properly nested word.  The valid opening tags of a sample number its    *)
(* matched pops plus its UNCLOSED_TAG errors; its valid closing tags       *)
(* number its matched pops plus its UNMATCHED_CLOSING_TAG and              *)
(* MISMATCHED_TAG errors.  MatchedPops is zero when the pass starts and    *)
(* grows by one at each step that pops, and at no other.                   *)
(***************************************************************************)
\* the tags of the valid vocabulary of a prompt, in reading order
ValidWord(prompt) ==
    LET occ == SelectSeq(Occurrences(prompt), LAMBDA o : o.tag.tag_name \in valid_tags)
    IN [i \in 1..Len(occ) |-> occ[i].tag]

\* w is empty, or an opening tag, a nested word, the closing tag of the same
\* name, and a nested word
RECURSIVE ProperlyNested(_)
ProperlyNested(w) ==
    \/ w = <<>>
    \/ /\ ~w[1].is_closing
       /\ \E k \in 2..Len(w) :
             /\ w[k].is_closing
             /\ w[k].tag_name = w[1].tag_name
             /\ ProperlyNested(SubSeq(w, 2, k - 1))
             /\ ProperlyNested(SubSeq(w, k + 1, Len(w)))

\* the opening and the closing tags among the first n of a word
Openings(w, n) == Cardinality({k \in 1..n : ~w[k].is_closing})
Closings(w, n) == Cardinality({k \in 1..n : w[k].is_closing})

Count(prompt_number, error_type) == Cardinality(ErrorsOf(prompt_number, error_type))

\* the valid tags among the occurrences before pos
ValidBefore(n) ==
    LET occ == SelectSeq(SubSeq(CurrentOccurrences, 1, n),
                         LAMBDA o : o.tag.tag_name \in valid_tags)
    IN [i \in 1..Len(occ) |-> occ[i].tag]

\* the pops of the running pass: the pushes that are no longer on the stack
MatchedPops ==
    Openings(ValidBefore(pos - 1), Len(ValidBefore(pos - 1))) - Len(tag_stack)

C14_DuringPass ==
    pc = "structure" =>
        LET seen == ValidBefore(pos - 1) IN
        /\ MatchedPops >= 0
        /\ pos = 1 => MatchedPops = 0
        /\ Closings(seen, Len(seen))
              = MatchedPops + Count(prompt_idx + 1, "UNMATCHED_CLOSING_TAG")
                            + Count(prompt_idx + 1, "MISMATCHED_TAG")
        /\ Count(prompt_idx + 1, "UNCLOSED_TAG") = 0

C14_AfterPass ==
    AfterUnclosedLoop =>
        LET w == ValidWord(prompts[prompt_idx])
            pops == Openings(w, Len(w)) - Len(tag_stack)
        IN /\ NestingErrorsOf(prompt_idx) = <<>> <=> ProperlyNested(w)
           /\ Openings(w, Len(w)) = pops + Count(prompt_idx, "UNCLOSED_TAG")
           /\ Closings(w, Len(w))
                 = pops + Count(prompt_idx, "UNMATCHED_CLOSING_TAG")
                        + Count(prompt_idx, "MISMATCHED_TAG")

C14_NestingExact ==
    /\ []C14_DuringPass
    /\ []C14_AfterPass
    /\ [][StructureStep =>
            MatchedPops' = MatchedPops
                + (IF tag_stack # <<>>
                      /\ tag_stack' = SubSeq(tag_stack, 1, Len(tag_stack) - 1)
                   THEN 1 ELSE 0)]_vars

\* a pair of tags nested in a pair of another name passed without an error
C14_Witness ==
    /\ pc = "done"
    /\ errors = <<>>
    /\ Len(prompts) = 1
    /\ LET w == ValidWord(prompts[1])
       IN /\ Len(w) = 4
          /\ w[1].tag_name # w[2].tag_name
          /\ ~w[2].is_closing

====
